---------------------------- MODULE Spec2Model ----------------------------
(***************************************************************************)
(* Session and transfer control layer of the P2P link application          *)
(* (src/App.tsx, the component that starts at line 470).                   *)
(*                                                                         *)
(* The component is a React function component.  Its refs (connRef,        *)
(* callRef, incomingChunks, connectionTimeoutRef) are shared mutable cells; *)
(* its useState values are read by a handler as they were in the render    *)
(* that created the handler.  A handler that is registered once and called *)
(* later (a transport callback, a timer callback, the continuation of an   *)
(* await) therefore reads the values CAPTURED when it was created; the     *)
(* model stores these captured values with the handle, the timer or the    *)
(* suspended continuation.  Handlers invoked from the rendered UI read the *)
(* current values.                                                         *)
(*                                                                         *)
(* The transport (PeerJS data connections and media calls), the media      *)
(* devices and the user are the environment: their signals are the         *)
(* actions' inputs.                                                        *)
(***************************************************************************)
EXTENDS Integers, Sequences, FiniteSets, TLC

(***************************************************************************)
(* Bounds of the model                                                     *)
(***************************************************************************)
\* CHUNK_SIZE is 16384 in the source (src/App.tsx:468); the model scales it
\* down so that payloads of a few bytes split into several chunks.
CHUNK_SIZE == 2
MaxPayload == 6
MaxRedeliver == 1
MaxConns == 2
MaxMsgs == 1
MaxTotal == 3
MaxIdx == 2
MaxCalls == 2
MaxStreams == 2
MaxSends == 1
MaxSendLen == 13
MaxLogCalls == 7
MaxRouted == 4

\* The log keeps 50 entries in the source (src/App.tsx:498); the model scales
\* the capacity down so that a handful of addLog calls overflow it.
LOG_CAPACITY == 3

Bytes == {"a", "b"}
MyId == "ME"
RemotePeers == {"A", "B"}
TransferIds == {"t1"}
ConnIds == 1..MaxConns

\* JavaScript's Infinity (a positive number divided by 0), above every
\* finite progress value of the model.
Infinity == 10 ^ 6

Max(S) == CHOOSE x \in S : \A y \in S : y <= x
Min2(a, b) == IF a <= b THEN a ELSE b

(***************************************************************************)
(* File names: a stem and a suffix.  handleIncomingChunk classifies by     *)
(* /\.(jpg|jpeg|png|gif)$/i, so the suffix is compared in lower case.      *)
(***************************************************************************)
NoFileName == [stem |-> "", ext |-> ""]
FileNames == {[stem |-> "pic", ext |-> "PNG"], [stem |-> "clip", ext |-> "mp4"]}

ToLowerCase(s) ==
    CASE s = "PNG" -> "png"
      [] s = "JPG" -> "jpg"
      [] OTHER -> s

ImageSuffixes == {"jpg", "jpeg", "png", "gif"}

MatchesImageSuffix(fileName) == ToLowerCase(fileName.ext) \in ImageSuffixes

FileMessageType(fileName) ==
    IF MatchesImageSuffix(fileName) THEN "IMAGE" ELSE "VIDEO_FILE"

(***************************************************************************)
(* Transfer Manager, send side: the slicing done by sendFile.              *)
(***************************************************************************)
\* Math.ceil(byteLength / CHUNK_SIZE)
\* a variant that drops a final partial chunk
TotalChunksFloor(size) == size \div CHUNK_SIZE

TotalChunks(size) == (size + CHUNK_SIZE - 1) \div CHUNK_SIZE

\* arrayBuffer.slice(start, end) for chunk i (0-based, end exclusive)
ChunkStart(i) == i * CHUNK_SIZE
ChunkEnd(i, size) == Min2(ChunkStart(i) + CHUNK_SIZE, size)
SliceChunk(buf, i) == SubSeq(buf, ChunkStart(i) + 1, ChunkEnd(i, Len(buf)))

ChunkMsg(tId, senderId, buf, i, fileName) ==
    [type |-> "CHUNK", senderId |-> senderId, content |-> SliceChunk(buf, i),
     transferId |-> tId, chunkIndex |-> i, totalChunks |-> TotalChunks(Len(buf)),
     fileName |-> fileName]

(***************************************************************************)
(* Transfer Manager, receive side: the pieces of handleIncomingChunk.      *)
(* A JavaScript array with holes is a function whose domain is the set of  *)
(* indices that were assigned.                                             *)
(***************************************************************************)
EmptyChunks == [i \in {} |-> <<>>]

\* A variant that appends in arrival order, chunks.push(msg.content), instead
\* of writing the slot of the chunk's index.
StoreChunkPush(chunks, idx, content) ==
    [i \in (DOMAIN chunks) \cup {Cardinality(DOMAIN chunks)} |->
        IF i \in DOMAIN chunks THEN chunks[i] ELSE content]

\* chunks[msg.chunkIndex] = msg.content
StoreChunk(chunks, idx, content) ==
    [i \in (DOMAIN chunks) \cup {idx} |-> IF i = idx THEN content ELSE chunks[i]]

ArrayLength(chunks) == IF DOMAIN chunks = {} THEN 0 ELSE Max(DOMAIN chunks) + 1

\* A variant that counts with chunks.length, which includes the holes.
ReceivedCountByLength(chunks) == ArrayLength(chunks)

\* Object.keys(chunks).length
ReceivedCount(chunks) == Cardinality(DOMAIN chunks)

\* Math.floor((received / total) * 100).  The integer quotient equals the
\* floating-point result for every total below 20, which covers the model.
Progress(received, total) ==
    IF total = 0 THEN Infinity ELSE (received * 100) \div total

\* new Blob(chunks): the parts in index order; a hole is converted to the
\* text "undefined".
RECURSIVE BlobUpTo(_, _)
BlobUpTo(chunks, n) ==
    IF n = 0 THEN <<>>
    ELSE BlobUpTo(chunks, n - 1) \o
         (IF (n - 1) \in DOMAIN chunks THEN chunks[n - 1] ELSE <<"undefined">>)

Blob(chunks) == BlobUpTo(chunks, ArrayLength(chunks))


(***************************************************************************)
(* Partial maps (JavaScript objects used as dictionaries)                  *)
(***************************************************************************)
EmptyMap == [k \in {} |-> 0]
Put(m, k, v) == [x \in (DOMAIN m) \cup {k} |-> IF x = k THEN v ELSE m[x]]
Remove(m, k) == [x \in (DOMAIN m) \ {k} |-> m[x]]

(***************************************************************************)
(* State                                                                   *)
(***************************************************************************)
VARIABLES
    \* Transfer Manager
    incomingChunks,     \* incomingChunks.current: transferId -> {chunks, total}
    transferProgress,   \* transferId -> percentage
    sendProcs,          \* suspended invocations of sendFile
    \* message stream
    messages,
    \* Session Controller
    status,             \* ConnectionStatus
    conns,              \* the transport's data-connection handles
    connRef,            \* connRef.current: a handle, 0 for null
    connectionTimeout,  \* the timer of connectionTimeoutRef and what it captured
    activeTargetId,
    targetIdInput,
    \* Call Negotiation
    isInCall,
    isIncomingCall,
    localStream,        \* a stream of `streams`, 0 for null
    remoteStream,       \* the call whose remote stream is shown, 0 for null
    callRef,            \* callRef.current: a media-call handle, 0 for null
    calls,              \* the transport's media-call handles
    streams,            \* local media streams handed out by getUserMedia
    pendingMedia,       \* suspended getUserMedia continuations
    \* observer outputs of the last step
    logged,             \* entries passed to addLog
    sent,               \* envelopes handed to the transport (handle.send)
    progressed,         \* values passed to setTransferProgress
    \* environment of the reassembly scenario
    payload,            \* the file the remote peer sends
    wire,               \* its CHUNK envelopes not yet delivered
    arrivals,           \* its CHUNK envelopes as they arrived, in arrival order
    \* the log ring (the `logs` state).  No handler reads it back; the entries a
    \* handler emits in one step are in `logged`, and the ring itself is followed
    \* only through the addLog steps of SpecLog
    logs,
    \* history
    hist

xferVars == <<incomingChunks, transferProgress, sendProcs>>
sessVars == <<status, conns, connRef, connectionTimeout, activeTargetId, targetIdInput>>
callVars == <<isInCall, isIncomingCall, localStream, remoteStream, callRef, calls,
              streams, pendingMedia>>
envVars == <<payload, wire, arrivals, logs>>
vars == <<xferVars, messages, sessVars, callVars, logged, sent, progressed, envVars, hist>>

(***************************************************************************)
(* Log entries and envelopes                                               *)
(***************************************************************************)
\* the entry addLog builds (id and time left out)
LogEntry(message, level) == [message |-> message, level |-> level]

Envelope(type, senderId, content) ==
    [type |-> type, senderId |-> senderId, content |-> content, transferId |-> "",
     chunkIndex |-> 0, totalChunks |-> 0, fileName |-> NoFileName]

NoConn == [st |-> "none", peer |-> "", origin |-> "", capTarget |-> "", capStream |-> 0]

\* conn.open
IsOpen(h) == h # 0 /\ conns[h].st = "open"

FreeConns == {h \in ConnIds : conns[h].st = "none"}
NextConn == CHOOSE h \in FreeConns : \A g \in FreeConns : h <= g

NoTimer == [armed |-> FALSE, capStatus |-> "DISCONNECTED"]

\* What a handler created in the first render reads: the peer's 'connection'
\* and 'call' handlers are registered once, by the mount effect.
FirstRender == [activeTargetId |-> "", localStream |-> 0]

CallIds == 1..MaxCalls
StreamIds == 1..MaxStreams

NoCall == [st |-> "none", origin |-> "", peer |-> "", capStream |-> 0]
FreeCalls == {c \in CallIds : calls[c].st = "none"}
NextCall == CHOOSE c \in FreeCalls : \A d \in FreeCalls : c <= d

NoStream == [acquired |-> FALSE, stops |-> 0]
FreeStreams == {x \in StreamIds : ~streams[x].acquired}
NextStream == CHOOSE x \in FreeStreams : \A y \in FreeStreams : x <= y

HistInit ==
    [openedBy |-> 0,            \* the handle whose open handler set CONNECTED last
     origins |-> {},            \* <<handle, "out" | "in">>: connectToPeer put the state in
                                \* CONNECTING for it, or it was accepted from the peer
     acceptSeen |-> FALSE,      \* a CALL_RESPONSE with content ACCEPT was received
     lastDone |-> [keys |-> {}, total |-> -1],
                                \* slots and recorded total of the last assembled transfer
     reported |-> [t \in {} |-> 0],
                                \* transferId -> the last progress value reported
     callPhase |-> "none",      \* the last step of Call Negotiation: "requested"
                                \* (CALL_REQUEST sent), "accepted" / "rejected" (the
                                \* CALL_RESPONSE received), "answered" (local accept done)
     sends |-> [t \in {} |-> 0],
                                \* transferId -> the handle in connRef.current when
                                \* sendFile started, and the bytes of its file
     emitted |-> <<>>]          \* the CHUNK envelopes sendFile handed to the transport

InitBase ==
    /\ incomingChunks = EmptyMap
    /\ transferProgress = EmptyMap
    /\ sendProcs = <<>>
    /\ messages = <<>>
    /\ status = "DISCONNECTED"
    /\ conns = [h \in ConnIds |-> NoConn]
    /\ connRef = 0
    /\ connectionTimeout = NoTimer
    /\ activeTargetId = ""
    /\ targetIdInput = ""
    /\ isInCall = FALSE
    /\ isIncomingCall = FALSE
    /\ localStream = 0
    /\ remoteStream = 0
    /\ callRef = 0
    /\ calls = [c \in CallIds |-> NoCall]
    /\ streams = [x \in StreamIds |-> NoStream]
    /\ pendingMedia = <<>>
    /\ logged = <<>>
    /\ sent = <<>>
    /\ progressed = <<>>
    /\ arrivals = <<>>
    /\ logs = <<>>
    /\ hist = HistInit

(***************************************************************************)
(* endCall (src/App.tsx:809-817).  ls is the localStream the invoked        *)
(* closure reads, cs the media-call handles as the caller leaves them.     *)
(* callRef.current is never reset, so close() may be                       *)
(* called on a handle of an earlier call; close() on a handle that is not  *)
(* open emits nothing.                                                     *)
(***************************************************************************)
ClosedBy(st) ==
    CASE st = "open" -> "closing"
      [] st = "pending" -> "closed"
      [] OTHER -> st

\* if (localStream) localStream.getTracks().forEach(t => t.stop())
StopTracks(ss, ls) ==
    IF ls # 0 THEN [ss EXCEPT ![ls].stops = Min2(@ + 1, 2)] ELSE ss

EndCallLog == <<LogEntry("Call disconnected", "info")>>

\* a variant that leaves the call overlay up
endCallKeepsInCall(cs, ls) ==
    /\ calls' = IF callRef # 0 THEN [cs EXCEPT ![callRef].st = ClosedBy(@)] ELSE cs
    /\ streams' = StopTracks(streams, ls)
    /\ localStream' = 0
    /\ remoteStream' = 0
    /\ isInCall' = isInCall
    /\ isIncomingCall' = FALSE

endCall(cs, ls) ==
    /\ calls' = IF callRef # 0 THEN [cs EXCEPT ![callRef].st = ClosedBy(@)] ELSE cs
    /\ streams' = StopTracks(streams, ls)
    /\ localStream' = 0
    /\ remoteStream' = 0
    /\ isInCall' = FALSE
    /\ isIncomingCall' = FALSE

(***************************************************************************)
(* handleIncomingChunk (src/App.tsx:622-648)                               *)
(***************************************************************************)
\* a variant that leaves the assembled message its CHUNK kind
FinalMsgKindKept(msg, chunks) == [msg EXCEPT !.content = Blob(chunks)]

FinalMsg(msg, chunks) ==
    [msg EXCEPT !.type = FileMessageType(msg.fileName), !.content = Blob(chunks)]

handleIncomingChunk(msg) ==
    LET tId == msg.transferId
        cur == IF tId \in DOMAIN incomingChunks
               THEN incomingChunks[tId]
               ELSE [chunks |-> EmptyChunks, total |-> msg.totalChunks]
        chunks == StoreChunk(cur.chunks, msg.chunkIndex, msg.content)
        received == ReceivedCount(chunks)
        progress == Progress(received, msg.totalChunks)
    IN  /\ progressed' = <<[id |-> tId, value |-> progress]>>
        /\ IF received = msg.totalChunks
           THEN /\ messages' = Append(messages, FinalMsg(msg, chunks))
                /\ incomingChunks' = Remove(incomingChunks, tId)
                /\ transferProgress' = Remove(transferProgress, tId)
                /\ hist' = [hist EXCEPT !.lastDone = [keys |-> DOMAIN chunks,
                                                      total |-> cur.total],
                                        !.reported = Put(@, tId, progress)]
           ELSE /\ messages' = messages
                /\ incomingChunks' = Put(incomingChunks, tId, [cur EXCEPT !.chunks = chunks])
                /\ transferProgress' = Put(transferProgress, tId, progress)
                /\ hist' = [hist EXCEPT !.reported = Put(@, tId, progress)]

(***************************************************************************)
(* setupDataConnection (src/App.tsx:570-620): the part that runs at once.  *)
(* rec is the new handle with what its handlers capture.                   *)
(***************************************************************************)
\* connRef.current && connRef.current.peer === conn.peer && connRef.current.open
ClosesOld(peer) ==
    connRef # 0 /\ conns[connRef].peer = peer /\ conns[connRef].st = "open"

setupDataConnection(h, rec) ==
    /\ conns' = [(IF ClosesOld(rec.peer)
                  THEN [conns EXCEPT ![connRef].st = "closing"]
                  ELSE conns) EXCEPT ![h] = rec]
    /\ connRef' = h

HandshakeLog == LogEntry("Handshaking", "info")

(***************************************************************************)
(* The peer's 'connection' handler (src/App.tsx:535-539): an inbound       *)
(* session from remote peer p.  The handle is not open yet; its 'open'     *)
(* signal follows.                                                         *)
(***************************************************************************)
PeerConnection(p) ==
    /\ FreeConns # {}
    /\ LET h == NextConn
       IN  /\ setupDataConnection(h, [st |-> "pending", peer |-> p, origin |-> "in",
                                      capTarget |-> FirstRender.activeTargetId,
                                      capStream |-> FirstRender.localStream])
           /\ hist' = [hist EXCEPT !.origins = @ \cup {<<h, "in">>}]
    /\ activeTargetId' = p
    /\ logged' = <<LogEntry("Incoming request", "info"), HandshakeLog>>
    /\ sent' = <<>>
    /\ progressed' = <<>>
    /\ UNCHANGED <<xferVars, messages, status, connectionTimeout, targetIdInput,
                   callVars, envVars>>

(***************************************************************************)
(* connectToPeer (src/App.tsx:650-677), reachable from the landing page    *)
(* (status DISCONNECTED, no message, no active target), from "Retry Link"  *)
(* (status ERROR) and from the chat's reconnect button (status             *)
(* DISCONNECTED or ERROR, messages present); never while the call overlay  *)
(* replaces the page.                                                      *)
(***************************************************************************)
LandingPage ==
    ~isInCall /\ status = "DISCONNECTED" /\ messages = <<>> /\ activeTargetId = ""

CanClickConnect ==
    /\ ~isInCall
    /\ \/ LandingPage /\ targetIdInput # ""
       \/ status = "ERROR"
       \/ status = "DISCONNECTED" /\ messages # <<>>

\* the timer callback: if (status !== CONNECTED) { addLog(...); setStatus(ERROR) }
\* where status is the value connectToPeer's render had
ArmTimer == [armed |-> TRUE, capStatus |-> status]

\* a variant whose request leaves the state as it is
RequestStatusKept == status

RequestStatus == "CONNECTING"

connectToPeer ==
    /\ CanClickConnect
    /\ sent' = <<>>
    /\ progressed' = <<>>
    /\ UNCHANGED <<xferVars, messages, targetIdInput, callVars, envVars>>
    /\ IF targetIdInput = ""
       THEN /\ logged' = <<>>
            /\ UNCHANGED <<status, conns, connRef, connectionTimeout, activeTargetId, hist>>
       ELSE IF targetIdInput = MyId
       THEN /\ logged' = <<LogEntry("Cannot connect to self", "warn")>>
            /\ UNCHANGED <<status, conns, connRef, connectionTimeout, activeTargetId, hist>>
       ELSE /\ FreeConns # {}
            /\ logged' = <<LogEntry("Connecting", "info"), HandshakeLog>>
            /\ activeTargetId' = targetIdInput
            /\ status' = RequestStatus
            /\ connectionTimeout' = ArmTimer
            /\ LET h == NextConn
               IN  /\ setupDataConnection(h, [st |-> "pending", peer |-> targetIdInput,
                                              origin |-> "out",
                                              capTarget |-> activeTargetId,
                                              capStream |-> localStream])
                   /\ hist' = [hist EXCEPT !.origins =
                                  IF status' = "CONNECTING" THEN @ \cup {<<h, "out">>} ELSE @]

\* typing into the landing page's input (upper-cased by its onChange)
SetTargetIdInput(v) ==
    /\ LandingPage
    /\ v # targetIdInput
    /\ targetIdInput' = v
    /\ logged' = <<>>
    /\ sent' = <<>>
    /\ progressed' = <<>>
    /\ UNCHANGED <<xferVars, messages, status, conns, connRef, connectionTimeout,
                   activeTargetId, callVars, envVars, hist>>

(***************************************************************************)
(* The connect timer's callback (src/App.tsx:664-669)                      *)
(***************************************************************************)
TimeoutLogTwice == <<LogEntry("Connection attempt timed out.", "error"),
                     LogEntry("Connection attempt timed out.", "error")>>

TimeoutLog == <<LogEntry("Connection attempt timed out.", "error")>>

ConnectTimeout ==
    /\ connectionTimeout.armed
    /\ connectionTimeout' = NoTimer
    /\ IF connectionTimeout.capStatus # "CONNECTED"
       THEN /\ logged' = TimeoutLog
            /\ status' = "ERROR"
       ELSE /\ logged' = <<>>
            /\ status' = status
    /\ sent' = <<>>
    /\ progressed' = <<>>
    /\ UNCHANGED <<xferVars, messages, conns, connRef, activeTargetId, targetIdInput,
                   callVars, envVars, hist>>

(***************************************************************************)
(* Signals of a data-connection handle (src/App.tsx:579-598)               *)
(***************************************************************************)
\* a variant of the open handler that leaves the timer running
ClearTimeoutSkipped(t) == t

\* if (connectionTimeoutRef.current) clearTimeout(connectionTimeoutRef.current)
ClearTimeout(t) == NoTimer

\* a variant of the open handler that leaves the state as it is
OpenStatusKept == status

\* setStatus(ConnectionStatus.CONNECTED)
OpenStatus == "CONNECTED"

\* 'open': clears the connect timer, whichever handle opens
ConnOpen(h) ==
    /\ conns[h].st = "pending"
    /\ conns' = [conns EXCEPT ![h].st = "open"]
    /\ connectionTimeout' = ClearTimeout(connectionTimeout)
    /\ logged' = <<LogEntry("P2P Link established", "success")>>
    /\ status' = OpenStatus
    /\ hist' = [hist EXCEPT !.openedBy = h]
    /\ sent' = <<>>
    /\ progressed' = <<>>
    /\ UNCHANGED <<xferVars, messages, connRef, activeTargetId, targetIdInput,
                   callVars, envVars>>

\* 'close': the remote end closed an open handle, or close() was called on it
ConnClose(h) ==
    /\ conns[h].st \in {"open", "closing"}
    /\ conns' = [conns EXCEPT ![h].st = "closed"]
    /\ logged' = <<LogEntry("P2P Link closed", "warn")>>
    /\ status' = "DISCONNECTED"
    /\ sent' = <<>>
    /\ progressed' = <<>>
    /\ UNCHANGED <<xferVars, messages, connRef, connectionTimeout, activeTargetId,
                   targetIdInput, callVars, envVars, hist>>

\* 'error': the transport may keep the handle as it is or give it up
ErrorKinds == {"negotiation-failed", "connection-failed"}

AfterError(st, dies) ==
    IF ~dies THEN st ELSE IF st = "open" THEN "closing" ELSE "closed"

ConnError(h, kind, dies) ==
    /\ conns[h].st \in {"pending", "open"}
    /\ conns' = [conns EXCEPT ![h].st = AfterError(@, dies)]
    /\ logged' = IF kind = "negotiation-failed"
                 THEN <<LogEntry("Data Channel Error", "error"),
                        LogEntry("P2P negotiation failed", "error")>>
                 ELSE <<LogEntry("Data Channel Error", "error")>>
    /\ status' = "ERROR"
    /\ sent' = <<>>
    /\ progressed' = <<>>
    /\ UNCHANGED <<xferVars, messages, connRef, connectionTimeout, activeTargetId,
                   targetIdInput, callVars, envVars, hist>>

(***************************************************************************)
(* The peer's 'error' handler (src/App.tsx:555-561).  peer-unavailable     *)
(* answers an outbound request whose target is not registered: that handle *)
(* never opens.                                                            *)
(***************************************************************************)
PeerUnavailableStatus == "ERROR"

PeerUnavailable(h) ==
    /\ conns[h].st = "pending"
    /\ conns[h].origin = "out"
    /\ conns' = [conns EXCEPT ![h].st = "closed"]
    /\ logged' = <<LogEntry("System Error", "error"),
                   LogEntry("Peer not found. They might be offline.", "warn")>>
    /\ status' = PeerUnavailableStatus
    /\ sent' = <<>>
    /\ progressed' = <<>>
    /\ UNCHANGED <<xferVars, messages, connRef, connectionTimeout, activeTargetId,
                   targetIdInput, callVars, envVars, hist>>

PeerErrorOther ==
    /\ logged' = <<LogEntry("System Error", "error")>>
    /\ sent' = <<>>
    /\ progressed' = <<>>
    /\ UNCHANGED <<xferVars, messages, sessVars, callVars, envVars, hist>>

(***************************************************************************)
(* initiateWebRTCCall and acceptCallNegotiation up to their await          *)
(* (src/App.tsx:792-797, 769-774): getUserMedia is pending.  The           *)
(* continuation keeps what its closure captured.                           *)
(***************************************************************************)
AcquiredStreams == {x \in StreamIds : streams[x].acquired}

CanRequestMedia == Cardinality(AcquiredStreams) + Len(pendingMedia) < MaxStreams

PendingGetUserMedia(fn, capTarget, capStream) ==
    [fn |-> fn, capTarget |-> capTarget, capStream |-> capStream]

(***************************************************************************)
(* The 'data' handler of handle h (src/App.tsx:600-619).  initiateWebRTCCall *)
(* and endCall are those of the render that set the handle up.             *)
(***************************************************************************)
\* a variant that starts the media call on any CALL_RESPONSE
AcceptsAny(data) == TRUE

Accepts(data) == data.content = "ACCEPT"

OnData(h, data) ==
    /\ sent' = <<>>
    /\ IF data.type = "CHUNK"
       THEN /\ handleIncomingChunk(data)
            /\ logged' = <<>>
            /\ UNCHANGED <<sendProcs, sessVars, callVars>>
       ELSE IF data.type = "CALL_REQUEST"
       THEN /\ activeTargetId' = data.senderId
            /\ isIncomingCall' = TRUE
            /\ isInCall' = TRUE
            /\ logged' = <<>>
            /\ progressed' = <<>>
            /\ UNCHANGED <<xferVars, messages, status, conns, connRef, connectionTimeout,
                           targetIdInput, localStream, remoteStream, callRef, calls,
                           streams, pendingMedia, hist>>
       ELSE IF data.type = "CALL_RESPONSE"
       THEN IF Accepts(data)
            THEN /\ CanRequestMedia
                 /\ pendingMedia' = Append(pendingMedia,
                        PendingGetUserMedia("initiate", conns[h].capTarget,
                                            conns[h].capStream))
                 /\ hist' = [hist EXCEPT !.acceptSeen = @ \/ data.content = "ACCEPT",
                                         !.callPhase = "accepted"]
                 /\ logged' = <<>>
                 /\ progressed' = <<>>
                 /\ UNCHANGED <<xferVars, messages, sessVars, isInCall, isIncomingCall,
                                localStream, remoteStream, callRef, calls, streams>>
            ELSE /\ endCall(calls, conns[h].capStream)
                 /\ logged' = EndCallLog
                 /\ progressed' = <<>>
                 /\ hist' = [hist EXCEPT !.callPhase =
                                IF @ = "requested" THEN "rejected" ELSE @]
                 /\ UNCHANGED <<xferVars, messages, sessVars, callRef, pendingMedia>>
       ELSE IF data.type # ""
       THEN /\ messages' = Append(messages, data)
            /\ logged' = <<>>
            /\ progressed' = <<>>
            /\ UNCHANGED <<xferVars, sessVars, callVars, hist>>
       ELSE /\ logged' = <<>>
            /\ progressed' = <<>>
            /\ UNCHANGED <<xferVars, messages, sessVars, callVars, hist>>

ConnData(h, data) ==
    /\ conns[h].st = "open"
    /\ Len(messages) < MaxMsgs
    /\ OnData(h, data)
    /\ UNCHANGED envVars

(***************************************************************************)
(* sendMessage (src/App.tsx:819-832) and sendFile (src/App.tsx:692-753).   *)
(* sendFile suspends at `await file.arrayBuffer()` and, in its loop, at    *)
(* the pacing `await` after chunk i when i % 5 = 0 or i is the last index. *)
(***************************************************************************)
PaceEvery == 5

Trim(text) == IF text = " " THEN "" ELSE text

SendIdOf(n) == IF n = 0 THEN "s1" ELSE IF n = 1 THEN "s2" ELSE "s3"

\* the number of sendFile invocations so far: each leaves its preview or runs
SendsStarted ==
    Len(sendProcs) + Cardinality({i \in 1..Len(messages) :
                                     /\ messages[i].type = "SYSTEM"
                                     /\ messages[i].senderId = MyId})

\* file.type.startsWith('image/')
IsImageMime(mime) == mime = "image/png"

\* connRef.current?.open
LinkOpen == IsOpen(connRef)

sendFile(file) ==
    IF ~LinkOpen
    THEN /\ logged' = <<LogEntry("Connection not ready", "error")>>
         /\ UNCHANGED <<sendProcs, hist>>
    ELSE /\ logged' = <<>>
         /\ sendProcs' = Append(sendProcs,
               [pc |-> "read", transferId |-> SendIdOf(SendsStarted), file |-> file, i |-> 0])
         /\ hist' = [hist EXCEPT !.sends = Put(@, SendIdOf(SendsStarted),
                                               [conn |-> connRef, buf |-> file.buf])]

sendMessage(content, type) ==
    /\ Len(messages) < MaxMsgs
    /\ progressed' = <<>>
    /\ UNCHANGED <<incomingChunks, transferProgress, sessVars, callVars, envVars>>
    /\ IF ~LinkOpen
       THEN /\ logged' = <<LogEntry("Cannot send: Link not open", "warn")>>
            /\ sent' = <<>>
            /\ UNCHANGED <<messages, sendProcs, hist>>
       ELSE IF type = "TEXT"
       THEN /\ logged' = <<>>
            /\ UNCHANGED <<sendProcs, hist>>
            /\ IF Trim(content) = ""
               THEN /\ sent' = <<>>
                    /\ UNCHANGED messages
               ELSE /\ sent' = <<[conn |-> connRef, msg |-> Envelope("TEXT", MyId, content)]>>
                    /\ messages' = Append(messages, Envelope("TEXT", MyId, content))
       ELSE /\ SendsStarted < MaxSends
            /\ sendFile(content)
            /\ sent' = <<>>
            /\ UNCHANGED messages

\* the index of the next pacing await at or after index from
YieldAt(from, total) ==
    CHOOSE j \in from..(total - 1) :
        /\ j % PaceEvery = 0 \/ j = total - 1
        /\ \A k \in from..(j - 1) : ~(k % PaceEvery = 0 \/ k = total - 1)

SentChunk(p, i) == ChunkMsg(p.transferId, MyId, p.file.buf, i, p.file.name)

\* sendFile resumes: after the file was read, or after a pacing await
SendFileResume(k) ==
    /\ k \in 1..Len(sendProcs)
    /\ LET p == sendProcs[k]
           total == TotalChunks(Len(p.file.buf))
           from == IF p.pc = "read" THEN 0 ELSE p.i + 1
           preview == [Envelope("SYSTEM", MyId, "Sending") EXCEPT !.transferId = p.transferId]
           stream == IF p.pc = "read" THEN Append(messages, preview) ELSE messages
           j == YieldAt(from, total)
       IN  /\ logged' = IF p.pc = "read" THEN <<LogEntry("Transferring", "info")>> ELSE <<>>
           /\ IF from < total /\ LinkOpen
              THEN /\ sent' = [x \in 1..(j - from + 1) |->
                                  [conn |-> connRef, msg |-> SentChunk(p, from + x - 1)]]
                   /\ transferProgress' = Put(transferProgress, p.transferId,
                                              Progress(j, total))
                   /\ progressed' = <<[id |-> p.transferId, value |-> Progress(j, total)]>>
                   /\ hist' = [hist EXCEPT !.reported = Put(@, p.transferId,
                                                           Progress(j, total)),
                                           !.emitted = @ \o sent']
                   /\ sendProcs' = [sendProcs EXCEPT ![k] = [p EXCEPT !.pc = "paced", !.i = j]]
                   /\ messages' = stream
              ELSE /\ sent' = <<>>
                   /\ messages' = Append(stream,
                         [Envelope(IF IsImageMime(p.file.mime) THEN "IMAGE" ELSE "VIDEO_FILE",
                                   MyId, p.file.buf) EXCEPT !.fileName = p.file.name])
                   /\ transferProgress' = Remove(transferProgress, p.transferId)
                   /\ progressed' = <<>>
                   /\ hist' = hist
                   /\ sendProcs' = [x \in 1..(Len(sendProcs) - 1) |->
                                       IF x < k THEN sendProcs[x] ELSE sendProcs[x + 1]]
    /\ UNCHANGED <<incomingChunks, sessVars, callVars, envVars>>

(***************************************************************************)
(* Call Negotiation: the user's actions                                    *)
(***************************************************************************)
\* startCallNegotiation (src/App.tsx:755-767); the chat's call button exists
\* only while the call overlay is not shown
startCallNegotiation ==
    /\ ~isInCall
    /\ progressed' = <<>>
    /\ UNCHANGED <<xferVars, messages, sessVars, localStream, remoteStream, callRef, calls,
                   streams, pendingMedia, envVars>>
    /\ IF ~LinkOpen
       THEN /\ logged' = <<>>
            /\ sent' = <<>>
            /\ UNCHANGED <<isInCall, isIncomingCall, hist>>
       ELSE /\ logged' = <<LogEntry("Requesting video call...", "info")>>
            /\ hist' = [hist EXCEPT !.callPhase = "requested"]
            /\ isInCall' = TRUE
            /\ isIncomingCall' = FALSE
            /\ sent' = <<[conn |-> connRef, msg |-> Envelope("CALL_REQUEST", MyId, "")]>>

\* acceptCallNegotiation up to its await (src/App.tsx:769-774); the overlay
\* shows the answer button while isIncoming && !remoteStream
acceptCallNegotiation ==
    /\ isInCall /\ isIncomingCall /\ remoteStream = 0
    /\ CanRequestMedia
    /\ pendingMedia' = Append(pendingMedia,
                              PendingGetUserMedia("accept", activeTargetId, localStream))
    /\ logged' = <<>>
    /\ sent' = <<>>
    /\ progressed' = <<>>
    /\ UNCHANGED <<xferVars, messages, sessVars, isInCall, isIncomingCall, localStream,
                   remoteStream, callRef, calls, streams, envVars, hist>>

\* the overlay's hang-up / reject button: endCall of the current render
HangUp ==
    /\ isInCall
    /\ endCall(calls, localStream)
    /\ logged' = EndCallLog
    /\ sent' = <<>>
    /\ progressed' = <<>>
    /\ UNCHANGED <<xferVars, messages, sessVars, callRef, pendingMedia, envVars, hist>>

(***************************************************************************)
(* getUserMedia settles: the rest of acceptCallNegotiation                  *)
(* (src/App.tsx:775-789) or of initiateWebRTCCall (src/App.tsx:798-806).    *)
(***************************************************************************)
RemoveAt(seq, k) ==
    [x \in 1..(Len(seq) - 1) |-> IF x < k THEN seq[x] ELSE seq[x + 1]]

MediaSettled(k, granted) ==
    /\ k \in 1..Len(pendingMedia)
    /\ pendingMedia' = RemoveAt(pendingMedia, k)
    /\ progressed' = <<>>
    /\ UNCHANGED <<xferVars, messages, sessVars, envVars>>
    /\ hist' = IF pendingMedia[k].fn = "accept" /\ granted
               THEN [hist EXCEPT !.callPhase = "answered"]
               ELSE hist
    /\ LET p == pendingMedia[k]
           s == NextStream
       IN  IF p.fn = "accept"
           THEN IF granted
                THEN /\ streams' = [streams EXCEPT ![s].acquired = TRUE]
                     /\ localStream' = s
                     /\ isIncomingCall' = FALSE
                     /\ sent' = IF LinkOpen
                                THEN <<[conn |-> connRef,
                                        msg |-> Envelope("CALL_RESPONSE", MyId, "ACCEPT")]>>
                                ELSE <<>>
                     /\ logged' = <<>>
                     /\ UNCHANGED <<isInCall, remoteStream, callRef, calls>>
                ELSE /\ endCall(calls, p.capStream)
                     /\ logged' = <<LogEntry("Media permission denied", "error")>> \o EndCallLog
                     /\ sent' = <<>>
                     /\ UNCHANGED callRef
           ELSE IF granted
                THEN /\ FreeCalls # {}
                     /\ streams' = [streams EXCEPT ![s].acquired = TRUE]
                     /\ localStream' = s
                     /\ calls' = [calls EXCEPT ![NextCall] =
                                     [st |-> "pending", origin |-> "out", peer |-> p.capTarget,
                                      capStream |-> p.capStream]]
                     /\ callRef' = NextCall
                     /\ logged' = <<>>
                     /\ sent' = <<>>
                     /\ UNCHANGED <<isInCall, isIncomingCall, remoteStream>>
                ELSE /\ endCall(calls, p.capStream)
                     /\ logged' = EndCallLog
                     /\ sent' = <<>>
                     /\ UNCHANGED callRef

(***************************************************************************)
(* Signals of the media-call transport                                     *)
(***************************************************************************)
\* the peer's 'call' handler (src/App.tsx:541-553): an inbound media call
PeerCall(p) ==
    /\ FreeCalls # {}
    /\ calls' = [calls EXCEPT ![NextCall] =
                    [st |-> "pending", origin |-> "in", peer |-> p,
                     capStream |-> FirstRender.localStream]]
    /\ callRef' = NextCall
    /\ logged' = <<LogEntry("Incoming call verified", "success")>>
    /\ sent' = <<>>
    /\ progressed' = <<>>
    /\ UNCHANGED <<xferVars, messages, sessVars, isInCall, isIncomingCall, localStream,
                   remoteStream, streams, pendingMedia, envVars, hist>>

\* 'stream' of an outbound call: the remote end answered (src/App.tsx:801).
\* An inbound call is never answered by this component, so it has no stream.
CallStream(c) ==
    /\ calls[c].st = "pending"
    /\ calls[c].origin = "out"
    /\ calls' = [calls EXCEPT ![c].st = "open"]
    /\ remoteStream' = c
    /\ logged' = <<>>
    /\ sent' = <<>>
    /\ progressed' = <<>>
    /\ UNCHANGED <<xferVars, messages, sessVars, isInCall, isIncomingCall, localStream,
                   callRef, streams, pendingMedia, envVars, hist>>

\* 'close' of a media call (src/App.tsx:548, 802): endCall of the render
\* that registered it
CallClose(c) ==
    /\ calls[c].st \in {"open", "closing"}
    /\ endCall([calls EXCEPT ![c].st = "closed"], calls[c].capStream)
    /\ logged' = EndCallLog
    /\ sent' = <<>>
    /\ progressed' = <<>>
    /\ UNCHANGED <<xferVars, messages, sessVars, callRef, pendingMedia, envVars, hist>>

\* 'error' of a media call (src/App.tsx:549-552, 803)
CallError(c, dies) ==
    /\ calls[c].st \in {"pending", "open"}
    /\ endCall([calls EXCEPT ![c].st = AfterError(@, dies)], calls[c].capStream)
    /\ logged' = IF calls[c].origin = "in"
                 THEN <<LogEntry("Call error", "error")>> \o EndCallLog
                 ELSE EndCallLog
    /\ sent' = <<>>
    /\ progressed' = <<>>
    /\ UNCHANGED <<xferVars, messages, sessVars, callRef, pendingMedia, envVars, hist>>

(***************************************************************************)
(* Specification of the session controller: connect requests, inbound      *)
(* sessions, the handles' signals, the connect timer and text messages.     *)
(***************************************************************************)
TextEnvelopes == {Envelope("TEXT", p, "hi") : p \in RemotePeers}

\* the files the user picks: an image of every length up to MaxSendLen, and
\* a video of 0 bytes and of 1 byte
LongBuf == [i \in 1..MaxSendLen |-> IF i % 3 = 0 THEN "b" ELSE "a"]

SendFiles ==
    {[name |-> [stem |-> "pic", ext |-> "PNG"], mime |-> "image/png",
      buf |-> SubSeq(LongBuf, 1, n)] : n \in 0..MaxSendLen}
    \cup
    {[name |-> [stem |-> "clip", ext |-> "mp4"], mime |-> "video/mp4",
      buf |-> SubSeq(LongBuf, 1, n)] : n \in {0, 1}}

Init ==
    /\ InitBase
    /\ payload = <<>>
    /\ wire = {}

Next ==
    \/ \E v \in RemotePeers \cup {MyId} : SetTargetIdInput(v)
    \/ connectToPeer
    \/ \E p \in RemotePeers : PeerConnection(p)
    \/ \E h \in ConnIds : ConnOpen(h)
    \/ \E h \in ConnIds : ConnClose(h)
    \/ \E h \in ConnIds, kind \in ErrorKinds, dies \in BOOLEAN : ConnError(h, kind, dies)
    \/ \E h \in ConnIds : PeerUnavailable(h)
    \/ PeerErrorOther
    \/ ConnectTimeout
    \/ \E h \in ConnIds, data \in TextEnvelopes : ConnData(h, data)
    \/ \E text \in {"hi", " "} : sendMessage(text, "TEXT")

Spec == Init /\ [][Next]_vars

(***************************************************************************)
(* Specification of reassembly: the remote peer of one accepted session    *)
(* sends the file `payload`; the transport delivers its CHUNK envelopes in *)
(* any order and may deliver one again while the transfer is incomplete.   *)
(***************************************************************************)
Payloads == UNION {[1..n -> Bytes] : n \in 0..MaxPayload}

RemoteChunks(buf) ==
    {ChunkMsg("t1", "A", buf, i, [stem |-> "pic", ext |-> "PNG"]) :
        i \in 0..(TotalChunks(Len(buf)) - 1)}

InitReassembly ==
    /\ InitBase
    /\ payload \in Payloads
    /\ wire = RemoteChunks(payload)

AcceptFirst(p) ==
    /\ connRef = 0
    /\ PeerConnection(p)

DeliverChunk(h, data) ==
    /\ data \in wire
    /\ conns[h].st = "open"
    /\ OnData(h, data)
    /\ wire' = wire \ {data}
    /\ arrivals' = Append(arrivals, data)
    /\ UNCHANGED <<payload, logs>>

Arrived == {arrivals[i] : i \in 1..Len(arrivals)}

RedeliverChunk(h, data) ==
    /\ data \in Arrived
    /\ data.transferId \in DOMAIN incomingChunks
    /\ Len(arrivals) - Cardinality(Arrived) < MaxRedeliver
    /\ conns[h].st = "open"
    /\ OnData(h, data)
    /\ arrivals' = Append(arrivals, data)
    /\ UNCHANGED <<payload, wire, logs>>

NextReassembly ==
    \/ AcceptFirst("A")
    \/ \E h \in ConnIds : ConnOpen(h)
    \/ \E h \in ConnIds, data \in wire : DeliverChunk(h, data)
    \/ \E h \in ConnIds, data \in Arrived : RedeliverChunk(h, data)

SpecReassembly == InitReassembly /\ [][NextReassembly]_vars

\* the completed file messages of the message stream
Completed == {i \in 1..Len(messages) : messages[i].type \in {"IMAGE", "VIDEO_FILE"}}

ArrivalOrder == [i \in 1..Len(arrivals) |-> arrivals[i].chunkIndex]

NoDuplicateArrived == Len(arrivals) = Cardinality(Arrived)

\* C1: when every chunk of the payload has been delivered exactly once, in
\* whatever order, the message stream holds exactly one completed message and
\* its content is the original payload (the chunks in index order).
C1_ReassemblyAnyOrder ==
    (wire = {} /\ arrivals # <<>> /\ NoDuplicateArrived) =>
        /\ Cardinality(Completed) = 1
        /\ \A i \in Completed : messages[i].content = payload

\* C1 witness: a three-chunk payload arrived in the order 2, 0, 1 and was
\* assembled into the payload
C1_Witness ==
    /\ wire = {}
    /\ ArrivalOrder = <<2, 0, 1>>
    /\ payload = <<"a", "b", "b", "a", "b">>
    /\ Cardinality(Completed) = 1
    /\ \A i \in Completed : messages[i].content = payload

\* C3: while a transfer is incomplete its received count is the number of
\* distinct chunk indices that arrived (a chunk delivered again is not counted
\* twice), the transfer completes only when every index has arrived, and the
\* payload then assembled is the original one.
C3_DuplicateChunkIdempotent ==
    /\ \A t \in DOMAIN incomingChunks :
          ReceivedCount(incomingChunks[t].chunks) =
              Cardinality({e.chunkIndex : e \in Arrived})
    /\ \A i \in Completed :
          /\ wire = {}
          /\ messages[i].content = payload

\* C3 witness: a chunk arrived twice before the transfer completed, and the
\* completed message carries the payload
C3_Witness ==
    /\ ~NoDuplicateArrived
    /\ Len(payload) = 5
    /\ Completed # {}
    /\ \A i \in Completed : messages[i].content = payload

(***************************************************************************)
(* Specification of the send path: over one accepted session the user     *)
(* sends one file; the remote end may close the session at any point, and  *)
(* further inbound sessions may be accepted.                               *)
(***************************************************************************)
SendOneFile(file) ==
    /\ hist.sends = EmptyMap
    /\ sendMessage(file, "IMAGE")

NextSend ==
    \/ \E p \in RemotePeers : PeerConnection(p)
    \/ \E h \in ConnIds : ConnOpen(h)
    \/ \E h \in ConnIds : ConnClose(h)
    \/ \E file \in SendFiles : SendOneFile(file)
    \/ \E k \in 1..MaxSends : SendFileResume(k)

SpecSend == Init /\ [][NextSend]_vars

(***************************************************************************)
(* Specification of the receive path under arbitrary CHUNK envelopes: the  *)
(* peer of one accepted session may send any index and any totalChunks.    *)
(***************************************************************************)
AnyChunks ==
    {[type |-> "CHUNK", senderId |-> "A", content |-> <<"a">>, transferId |-> t,
      chunkIndex |-> i, totalChunks |-> n, fileName |-> [stem |-> "clip", ext |-> "mp4"]] :
        t \in TransferIds, i \in 0..MaxIdx, n \in 0..MaxTotal}

NextRecv ==
    \/ AcceptFirst("A")
    \/ \E h \in ConnIds : ConnOpen(h)
    \/ \E h \in ConnIds, data \in AnyChunks : ConnData(h, data)
    \/ \E h \in ConnIds : ConnClose(h)

SpecRecv == Init /\ [][NextRecv]_vars

\* C2: the transfer assembled last had every slot 0..totalChunks-1 populated
\* when its completed message was appended.
C2_NoMissingSlotEmitted ==
    \A i \in 0..(hist.lastDone.total - 1) : i \in hist.lastDone.keys

\* C4: while a transfer stays in flight the progress values reported for its
\* transferId never decrease, and the value 100 is reported only in a step
\* that completes the transfer.
C4_ProgressMonotone ==
    [][/\ \A t \in DOMAIN incomingChunks \cap DOMAIN incomingChunks' :
             hist'.reported[t] >= hist.reported[t]
       /\ \A k \in 1..Len(progressed') :
             progressed'[k].value = 100 =>
                 Cardinality({i \in 1..Len(messages') :
                                 messages'[i].type \in {"IMAGE", "VIDEO_FILE"}})
                     > Cardinality(Completed)]_vars

(***************************************************************************)
(* Session properties, checked under Spec                                  *)
(***************************************************************************)
\* C5: whenever the session state is CONNECTED, the handle whose 'open'
\* handler set it was either requested by a connectToPeer that put the state
\* in CONNECTING, or accepted from the peer's 'connection' event.
C5_ConnectedHasOrigin ==
    status = "CONNECTED" =>
        /\ hist.openedBy # 0
        /\ \E o \in {"out", "in"} : <<hist.openedBy, o>> \in hist.origins

C5_Witness ==
    /\ status = "CONNECTED"
    /\ conns[hist.openedBy].origin = "out"
    /\ <<hist.openedBy, "out">> \in hist.origins
    /\ logged = <<LogEntry("P2P Link established", "success")>>

\* C6: a send request made while the session state is not CONNECTED hands no
\* envelope to the transport.
C6_NoSendUnlessConnected == sent # <<>> => status = "CONNECTED"

\* C10: the expiry of the connect timer sets the session state to ERROR and
\* emits exactly one log entry, of level error.
C10_TimeoutReportsOnce ==
    [][ConnectTimeout =>
          /\ status' = "ERROR"
          /\ Len(logged') = 1
          /\ logged'[1].level = "error"]_vars

C10_Witness ==
    /\ status = "ERROR"
    /\ logged = TimeoutLog
    /\ ~connectionTimeout.armed
    /\ \E h \in ConnIds : conns[h].st = "pending" /\ conns[h].origin = "out"

(***************************************************************************)
(* Specification of Call Negotiation over one accepted session: the user   *)
(* requests, answers and hangs up; the remote peer sends call envelopes    *)
(* and media calls; the media devices grant or refuse.                     *)
(***************************************************************************)
RejectEnvelope == Envelope("CALL_RESPONSE", "A", "REJECT")

CallEnvelopes ==
    {Envelope("CALL_REQUEST", "A", ""), Envelope("CALL_RESPONSE", "A", "ACCEPT"),
     RejectEnvelope}

NextCalls ==
    \/ AcceptFirst("A")
    \/ \E h \in ConnIds : ConnOpen(h)
    \/ \E h \in ConnIds, data \in CallEnvelopes : ConnData(h, data)
    \/ startCallNegotiation
    \/ acceptCallNegotiation
    \/ HangUp
    \/ \E k \in 1..MaxStreams, granted \in BOOLEAN : MediaSettled(k, granted)
    \/ PeerCall("A")
    \/ \E c \in CallIds : CallStream(c)
    \/ \E c \in CallIds : CallClose(c)
    \/ \E c \in CallIds, dies \in BOOLEAN : CallError(c, dies)

SpecCall == Init /\ [][NextCalls]_vars

\* C7: initiateWebRTCCall has run (its media request is pending, or it has
\* placed an outbound media call) only if a CALL_RESPONSE with content ACCEPT
\* was received before.
C7_ActiveOnlyAfterAccept ==
    (\/ \E k \in 1..Len(pendingMedia) : pendingMedia[k].fn = "initiate"
     \/ \E c \in CallIds : calls[c].st # "none" /\ calls[c].origin = "out")
        => hist.acceptSeen

C7_Witness ==
    /\ hist.acceptSeen
    /\ localStream # 0
    /\ streams[localStream].acquired
    /\ callRef # 0
    /\ calls[callRef].origin = "out"
    /\ calls[callRef].st = "open"
    /\ isInCall

\* C8: every step that takes the call back to IDLE with no media request
\* pending leaves each acquired local stream with its tracks stopped exactly
\* once, and no stream is ever stopped twice.
C8_MediaReleasedOnce ==
    [][/\ \A x \in StreamIds : streams'[x].stops <= 1
       /\ (isInCall /\ ~isInCall' /\ pendingMedia' = <<>>) =>
              \A x \in StreamIds : streams'[x].acquired => streams'[x].stops = 1]_vars

\* C9: endCall invoked while no call is active (by a CALL_RESPONSE other than
\* ACCEPT, or by the close signal of a media call) emits nothing and leaves
\* the call state and the media handles as they were.
CallIdle ==
    /\ ~isInCall
    /\ ~isIncomingCall
    /\ localStream = 0
    /\ remoteStream = 0
    /\ pendingMedia = <<>>

C9_EndCallIdleNoOp ==
    [][(/\ CallIdle
        /\ \/ \E h \in ConnIds : ConnData(h, RejectEnvelope)
           \/ \E c \in CallIds : CallClose(c))
          => /\ logged' = <<>>
             /\ UNCHANGED <<isInCall, isIncomingCall, localStream, remoteStream, streams,
                            status>>]_vars

(***************************************************************************)
(* Transfer state and session close, checked under SpecRecv                *)
(***************************************************************************)
\* C11: the close signal of a session leaves no TransferState and no progress
\* entry behind, so that nothing received before the close can be completed
\* by chunks that arrive later.
C11_CloseDiscardsPartial ==
    [][(\E h \in ConnIds : ConnClose(h)) =>
           /\ incomingChunks' = EmptyMap
           /\ transferProgress' = EmptyMap]_vars

\* C16: a CHUNK whose totalChunks differs from the total recorded for its
\* transferId leaves the transfer's slots and the message stream unchanged.
C16_MismatchRejected ==
    [][\A h \in ConnIds, data \in AnyChunks :
          (/\ ConnData(h, data)
           /\ data.transferId \in DOMAIN incomingChunks
           /\ data.totalChunks # incomingChunks[data.transferId].total)
              => /\ incomingChunks' = incomingChunks
                 /\ messages' = messages]_vars

(***************************************************************************)
(* One active session, checked under Spec                                  *)
(***************************************************************************)
OpenConns == {h \in ConnIds : conns[h].st = "open"}

\* C12: accepting an inbound session from peer p while the current session,
\* for a different peer, is open closes that session's handle, and afterwards
\* no handle other than the new one is open.
C12_InboundReplacesOtherPeer ==
    [][\A p \in RemotePeers :
          (PeerConnection(p) /\ IsOpen(connRef) /\ conns[connRef].peer # p)
              => /\ conns'[connRef].st \in {"closing", "closed"}
                 /\ \A h \in ConnIds : conns'[h].st = "open" => h = connRef']_vars

\* C15: a session set up for a peer that already has an open session closes
\* the older handle, and at no time are two session handles open.
C15_AtMostOneActiveSession ==
    [][/\ \A h \in ConnIds :
             (/\ connRef' # connRef
              /\ conns[h].st = "open"
              /\ conns[h].peer = conns'[connRef'].peer)
                 => conns'[h].st \in {"closing", "closed"}
       /\ Cardinality(OpenConns') <= 1]_vars

\* C20: connRef.current is null or a handle that is not closed.
C20_RefNeverClosed == connRef # 0 => conns[connRef].st # "closed"

(***************************************************************************)
(* Call Negotiation paths, checked under SpecCall                          *)
(***************************************************************************)
NoNewCall == \A c \in CallIds : calls'[c].st = "none" <=> calls[c].st = "none"

\* C13: sending CALL_REQUEST acquires no media and places no media call, and
\* the CALL_RESPONSE REJECT that answers it takes the caller back to IDLE,
\* again without a media request, an acquired stream or a media call.
C13_RejectReturnsToIdle ==
    [][/\ (startCallNegotiation /\ LinkOpen) =>
              /\ streams' = streams
              /\ pendingMedia' = pendingMedia
              /\ localStream' = localStream
              /\ NoNewCall
       /\ (/\ isInCall /\ ~isIncomingCall
           /\ hist.callPhase = "requested"
           /\ \E h \in ConnIds : ConnData(h, RejectEnvelope)) =>
              /\ ~isInCall' /\ ~isIncomingCall'
              /\ localStream' = 0
              /\ pendingMedia' = pendingMedia
              /\ AcquiredStreams' = AcquiredStreams
              /\ NoNewCall]_vars

C13_Witness ==
    /\ hist.callPhase = "rejected"
    /\ ~isInCall /\ ~isIncomingCall
    /\ logged = EndCallLog
    /\ AcquiredStreams = {}
    /\ pendingMedia = <<>>
    /\ \A c \in CallIds : calls[c].st = "none"

\* C18: once the local accept action has completed on the callee side (media
\* acquired, the call shown as running), an inbound media call has been
\* answered.
C18_CalleeActiveAfterAnswer ==
    (hist.callPhase = "answered" /\ isInCall /\ ~isIncomingCall /\ localStream # 0)
        => \E c \in CallIds : calls[c].origin = "in" /\ calls[c].st = "open"

\* C19: a failed media acquisition takes the call to IDLE, reports a log
\* entry of level error, sends nothing, places no media call and leaves no
\* new media request behind.
C19_MediaFailureReported ==
    [][\A k \in 1..MaxStreams :
          MediaSettled(k, FALSE) =>
              /\ ~isInCall' /\ ~isIncomingCall'
              /\ sent' = <<>>
              /\ NoNewCall
              /\ Len(pendingMedia') < Len(pendingMedia)
              /\ \E i \in 1..Len(logged') : logged'[i].level = "error"]_vars

(***************************************************************************)
(* The send loop, checked under SpecSend                                   *)
(***************************************************************************)
\* the CHUNK envelopes handed to the transport for transfer t, in order
EmittedFor(t) ==
    LET OfTransfer(e) == e.msg.transferId = t
    IN  SelectSeq(hist.emitted, OfTransfer)

\* sendFile has returned for transfer t, and connRef.current is still the
\* handle it started on and is open (handles are never reused, so the session
\* was open and current throughout)
SentOverOpenSession(t) ==
    /\ t \in DOMAIN hist.sends
    /\ \A k \in 1..Len(sendProcs) : sendProcs[k].transferId # t
    /\ connRef = hist.sends[t].conn
    /\ IsOpen(connRef)

\* the least n with n * CHUNK_SIZE >= size
CeilDiv(size) == CHOOSE n \in 0..size : n * CHUNK_SIZE >= size /\ (n = 0 \/ (n - 1) * CHUNK_SIZE < size)

\* C14: a file of S bytes sent over a session that stays open is emitted as
\* exactly ceil(S / CHUNK_SIZE) CHUNK envelopes with chunkIndex 0, 1, ... in
\* this order, the same transferId and totalChunks, chunk i carrying the bytes
\* [i * CHUNK_SIZE, min((i + 1) * CHUNK_SIZE, S)) of the file.
C14_ChunksCoverPayload ==
    \A t \in DOMAIN hist.sends :
        SentOverOpenSession(t) =>
            LET buf == hist.sends[t].buf
                S == Len(buf)
                n == CeilDiv(S)
                em == EmittedFor(t)
            IN  /\ Len(em) = n
                /\ \A i \in 1..Len(em) :
                      /\ em[i].conn = hist.sends[t].conn
                      /\ em[i].msg.type = "CHUNK"
                      /\ em[i].msg.chunkIndex = i - 1
                      /\ em[i].msg.totalChunks = n
                      /\ em[i].msg.content =
                            [j \in 1..(Min2(i * CHUNK_SIZE, S) - (i - 1) * CHUNK_SIZE) |->
                                buf[(i - 1) * CHUNK_SIZE + j]]

C14_Witness ==
    /\ SentOverOpenSession("s1")
    /\ Len(hist.sends["s1"].buf) = MaxSendLen
    /\ Len(EmittedFor("s1")) > PaceEvery + 1
    /\ EmittedFor("s1")[Len(EmittedFor("s1"))].msg.content = <<"a">>

\* C17: when sendFile resumes from its pacing yield after the session it
\* started on has closed, it hands no CHUNK envelope to the transport.
C17_NoChunkAfterClose ==
    [][\A k \in 1..MaxSends :
          (/\ SendFileResume(k)
           /\ sendProcs[k].pc = "paced"
           /\ conns[hist.sends[sendProcs[k].transferId].conn].st \in {"closing", "closed"})
              => sent' = <<>>]_vars

(***************************************************************************)
(* addLog (src/App.tsx:491-499) and the specification of the log: a run of *)
(* addLog calls.  The k-th call's message is k, so that an entry tells     *)
(* when it was added.                                                      *)
(***************************************************************************)
\* prev.slice(0, n)
Slice0(seq, n) == SubSeq(seq, 1, Min2(n, Len(seq)))

\* a variant that never drops an entry
addLogUnbounded(prev, newLog) == <<newLog>> \o prev

\* setLogs(prev => [newLog, ...prev].slice(0, 50))
addLog(prev, newLog) == Slice0(<<newLog>> \o prev, LOG_CAPACITY)

LogLevels == {"info", "success", "warn", "error"}

\* the number of addLog calls so far: the newest entry is first
LogCalls == IF logs = <<>> THEN 0 ELSE logs[1].message

AddLog(level) ==
    /\ LogCalls < MaxLogCalls
    /\ logs' = addLog(logs, LogEntry(LogCalls + 1, level))
    /\ UNCHANGED <<xferVars, messages, sessVars, callVars, logged, sent, progressed,
                   payload, wire, arrivals, hist>>

NextLog == \E level \in LogLevels : AddLog(level)

SpecLog == Init /\ [][NextLog]_vars

\* C21: the log holds at most LOG_CAPACITY entries, and they are the most
\* recent addLog calls, newest first, with none missing in between.
C21_LogBounded ==
    /\ Len(logs) <= LOG_CAPACITY
    /\ Len(logs) = Min2(LogCalls, LOG_CAPACITY)
    /\ \A i \in 1..Len(logs) : logs[i].message = LogCalls - i + 1

C21_Witness ==
    /\ LogCalls = LOG_CAPACITY + 2
    /\ Len(logs) = LOG_CAPACITY
    /\ logs[LOG_CAPACITY].message = 3

(***************************************************************************)
(* Progress entries, checked under SpecRecv                                *)
(***************************************************************************)
\* C22: every entry of the transfer-progress map is a percentage within
\* 0..100, and an entry exists only for a transfer that is still in flight
\* over an open session: none survives the completion of its transfer or the
\* close of the session.
C22_ProgressEntriesBounded ==
    \A t \in DOMAIN transferProgress :
        /\ transferProgress[t] \in 0..100
        /\ t \in DOMAIN incomingChunks
        /\ \E h \in ConnIds : conns[h].st = "open"

(***************************************************************************)
(* The session state machine, checked under Spec                           *)
(***************************************************************************)
\* C23: the session state changes only from DISCONNECTED or ERROR to
\* CONNECTING by connectToPeer, from CONNECTING to CONNECTED by an open
\* signal, from any state to CONNECTED by the open signal of an accepted
\* inbound session, from CONNECTED to DISCONNECTED by a close signal, and
\* from a state other than ERROR to ERROR; nothing else leaves ERROR.
C23_TransitionsOnly ==
    [][status' # status =>
          \/ status \in {"DISCONNECTED", "ERROR"} /\ status' = "CONNECTING" /\ connectToPeer
          \/ status = "CONNECTING" /\ status' = "CONNECTED"
                /\ \E h \in ConnIds : ConnOpen(h)
          \/ status' = "CONNECTED"
                /\ \E h \in ConnIds : ConnOpen(h) /\ conns[h].origin = "in"
          \/ status = "CONNECTED" /\ status' = "DISCONNECTED"
                /\ \E h \in ConnIds : ConnClose(h)
          \/ status # "ERROR" /\ status' = "ERROR"]_vars

\* the handle of the latest connect request, 0 if there was none: handles
\* are handed out in increasing order and never reused
OutConns == {h \in ConnIds : conns[h].origin = "out"}
LatestOut == IF OutConns = {} THEN 0 ELSE Max(OutConns)

\* C24: an open signal sets the state to CONNECTED and leaves no connect
\* timer armed; a timer is armed only by connectToPeer; and the timer never
\* expires while the handle of the attempt that armed it is open.
C24_OpenCancelsTimer ==
    [][/\ (\E h \in ConnIds : ConnOpen(h)) =>
              /\ status' = "CONNECTED"
              /\ ~connectionTimeout'.armed
       /\ (~connectionTimeout.armed /\ connectionTimeout'.armed) => connectToPeer
       /\ ConnectTimeout =>
              /\ LatestOut # 0
              /\ conns[LatestOut].st \in {"pending", "closed"}]_vars

\* C24 witness: the open signal of a requested session arrived while its
\* timer was running; the state is CONNECTED and no timer is armed
C24_Witness ==
    /\ status = "CONNECTED"
    /\ LatestOut # 0
    /\ hist.openedBy = LatestOut
    /\ conns[LatestOut].st = "open"
    /\ ~connectionTimeout.armed
    /\ logged = <<LogEntry("P2P Link established", "success")>>

\* C25: the connect timer never expires after the attempt that armed it was
\* ended by a transport error or a close signal (its handle is closed).
C25_EndedAttemptNoTimeout ==
    [][ConnectTimeout => (LatestOut # 0 /\ conns[LatestOut].st = "pending")]_vars

RouteChunks == {c \in AnyChunks : c.totalChunks = 2 /\ c.chunkIndex < 2}

RouteEnvelopes == RouteChunks \cup CallEnvelopes \cup TextEnvelopes

RouteData(h, data) ==
    /\ conns[h].st = "open"
    /\ Len(arrivals) < MaxRouted
    /\ OnData(h, data)
    /\ arrivals' = Append(arrivals, data)
    /\ UNCHANGED <<payload, wire, logs>>

NextRoute ==
    \/ AcceptFirst("A")
    \/ \E h \in ConnIds : ConnOpen(h)
    \/ \E h \in ConnIds, data \in RouteEnvelopes : RouteData(h, data)

SpecRoute == Init /\ [][NextRoute]_vars

\* C27: a CHUNK envelope reaches handleIncomingChunk only (the stream gets at
\* most the assembled file message, the call state is untouched); a
\* CALL_REQUEST or CALL_RESPONSE reaches call negotiation only (stream and
\* transfers untouched); any other envelope is appended to the end of the
\* stream and nothing else changes; the stream never holds an envelope of
\* kind CHUNK, CALL_REQUEST or CALL_RESPONSE.
C27_EnvelopesRouted ==
    [][\A h \in ConnIds, data \in RouteEnvelopes :
          RouteData(h, data) =>
              /\ \A i \in 1..Len(messages') :
                    messages'[i].type \notin {"CHUNK", "CALL_REQUEST", "CALL_RESPONSE"}
              /\ CASE data.type = "CHUNK" ->
                        /\ progressed' = <<[id |-> data.transferId,
                                            value |-> progressed'[1].value]>>
                        /\ UNCHANGED <<callVars, activeTargetId>>
                        /\ \/ messages' = messages
                           \/ /\ Len(messages') = Len(messages) + 1
                              /\ SubSeq(messages', 1, Len(messages)) = messages
                              /\ messages'[Len(messages')].type \in {"IMAGE", "VIDEO_FILE"}
                   [] data.type \in {"CALL_REQUEST", "CALL_RESPONSE"} ->
                        /\ messages' = messages
                        /\ progressed' = <<>>
                        /\ UNCHANGED xferVars
                        /\ \/ isIncomingCall' /\ isInCall'
                           \/ Len(pendingMedia') = Len(pendingMedia) + 1
                           \/ logged' = EndCallLog
                   [] OTHER ->
                        /\ messages' = Append(messages, data)
                        /\ progressed' = <<>>
                        /\ UNCHANGED <<xferVars, callVars>>]_vars

\* C27 witness: a CHUNK, a CALL_REQUEST and two text envelopes arrived; the
\* stream holds the two texts in their arrival order, the chunk is in the
\* transfer state and the call is incoming
C27_Witness ==
    /\ Len(arrivals) = 4
    /\ arrivals[1] = Envelope("TEXT", "B", "hi")
    /\ arrivals[2].type = "CHUNK"
    /\ arrivals[3].type = "CALL_REQUEST"
    /\ arrivals[4] = Envelope("TEXT", "A", "hi")
    /\ messages = <<Envelope("TEXT", "B", "hi"), Envelope("TEXT", "A", "hi")>>
    /\ "t1" \in DOMAIN incomingChunks
    /\ isIncomingCall /\ isInCall

(***************************************************************************)
(* Interleavings of Call Negotiation, checked under SpecCall               *)
(***************************************************************************)
\* C28: when the media acquisition of acceptCallNegotiation resolves after
\* the call was ended (the overlay is gone), the acquired stream is not
\* kept, no CALL_RESPONSE is sent and the call stays IDLE.
C28_EndedCallDetected ==
    [][\A k \in 1..MaxStreams :
          (MediaSettled(k, TRUE) /\ pendingMedia[k].fn = "accept" /\ ~isInCall) =>
              /\ sent' = <<>>
              /\ localStream' = 0
              /\ \A x \in StreamIds : streams'[x].acquired => streams'[x].stops >= 1
              /\ ~isInCall' /\ ~isIncomingCall']_vars

CallRequestEnvelope == Envelope("CALL_REQUEST", "A", "")

\* the media call of callRef.current is under way
CallHandleLive == callRef # 0 /\ calls[callRef].st \in {"pending", "open"}

\* C29: a CALL_REQUEST that arrives while a call is requested, incoming or
\* active leaves the role and the media-call handle as they are, and an
\* inbound media call that arrives while the media call of the current call
\* is under way does not replace its handle.
C29_OneCallAtATime ==
    [][/\ \A h \in ConnIds :
             (ConnData(h, CallRequestEnvelope) /\ isInCall) =>
                 /\ isInCall'
                 /\ isIncomingCall' = isIncomingCall
                 /\ callRef' = callRef
       /\ (PeerCall("A") /\ isInCall /\ CallHandleLive) => callRef' = callRef]_vars

(***************************************************************************)
(* Specification of malformed input: the peer of one accepted session      *)
(* sends CHUNK envelopes without a transferId and envelopes without a      *)
(* kind, and may close the session.                                        *)
(***************************************************************************)
\* the property key an absent transferId becomes: incomingChunks.current[undefined]
Undefined == "undefined"

MalformedEnvelopes ==
    {[type |-> "CHUNK", senderId |-> "A", content |-> <<"a">>, transferId |-> Undefined,
      chunkIndex |-> i, totalChunks |-> n, fileName |-> [stem |-> "clip", ext |-> "mp4"]] :
        i \in 0..MaxIdx, n \in 1..MaxTotal}
    \cup {Envelope("", "A", "hi")}

NextMalformed ==
    \/ AcceptFirst("A")
    \/ \E h \in ConnIds : ConnOpen(h)
    \/ \E h \in ConnIds, data \in MalformedEnvelopes : ConnData(h, data)
    \/ \E h \in ConnIds : ConnClose(h)

SpecMalformed == Init /\ [][NextMalformed]_vars

\* C30: an envelope that lacks a field its kind requires changes no transfer
\* state, no progress entry, no call state and no message stream.
C30_MalformedRejected ==
    [][\A h \in ConnIds, data \in MalformedEnvelopes :
          ConnData(h, data) =>
              UNCHANGED <<incomingChunks, transferProgress, messages, callVars>>]_vars

(***************************************************************************)
(* Replaced session handles, checked under Spec                            *)
(***************************************************************************)
\* C31: whenever the session state is CONNECTED, connRef.current is a handle
\* that is open.
C31_ConnectedRefOpen == status = "CONNECTED" => IsOpen(connRef)

\* C32: while the handle in connRef.current is open, a close or error signal
\* of another handle leaves the session state as it is.
C32_StaleSignalIgnored ==
    [][\A h \in ConnIds :
          (/\ h # connRef
           /\ IsOpen(connRef)
           /\ \/ ConnClose(h)
              \/ \E kind \in ErrorKinds, dies \in BOOLEAN : ConnError(h, kind, dies))
              => status' = status]_vars

(***************************************************************************)
(* The send loop and session changes, checked under SpecSend               *)
(***************************************************************************)
\* C33: every CHUNK envelope of a transfer was handed to the handle that was
\* in connRef.current when its sendFile started.
C33_ChunksOnStartingHandle ==
    \A i \in 1..Len(hist.emitted) :
        hist.emitted[i].conn = hist.sends[hist.emitted[i].msg.transferId].conn

\* the completed file messages sendFile appended to the sender's own stream
OwnFileMessages ==
    {i \in 1..Len(messages) : /\ messages[i].type \in {"IMAGE", "VIDEO_FILE"}
                              /\ messages[i].senderId = MyId
                              /\ messages[i].transferId = ""}

\* C34: once sendFile has returned its progress entry is gone, and the
\* sender's stream holds the completed file message of the transfer only if
\* every one of its totalChunks chunks was handed to the transport.
C34_AbortedSendDiscarded ==
    \A t \in DOMAIN hist.sends :
        (\A k \in 1..Len(sendProcs) : sendProcs[k].transferId # t) =>
            /\ t \notin DOMAIN transferProgress
            /\ OwnFileMessages # {} =>
                   Len(EmittedFor(t)) = TotalChunks(Len(hist.sends[t].buf))

(***************************************************************************)
(* Specification of re-delivery: as SpecReassembly, but a chunk that       *)
(* arrived may be delivered again at any time, also after its transfer     *)
(* completed.                                                              *)
(***************************************************************************)
RedeliverAny(h, data) ==
    /\ data \in Arrived
    /\ Len(arrivals) - Cardinality(Arrived) < MaxRedeliver
    /\ conns[h].st = "open"
    /\ OnData(h, data)
    /\ arrivals' = Append(arrivals, data)
    /\ UNCHANGED <<payload, wire, logs>>

NextRedeliver ==
    \/ AcceptFirst("A")
    \/ \E h \in ConnIds : ConnOpen(h)
    \/ \E h \in ConnIds, data \in wire : DeliverChunk(h, data)
    \/ \E h \in ConnIds, data \in Arrived : RedeliverAny(h, data)

SpecRedeliver == InitReassembly /\ [][NextRedeliver]_vars

\* C35: the message stream holds at most one completed file message of the
\* transfer, whatever is delivered again.
C35_OneCompletedPerTransfer ==
    Cardinality({i \in Completed : messages[i].transferId = "t1"}) <= 1

(***************************************************************************)
(* Specification of an end-to-end transfer: one file is sent over a        *)
(* session that stays open, and the transport then delivers the CHUNK      *)
(* envelopes it was given, in the order it was given them, to the remote   *)
(* peer.  The remote peer runs the same component, so a delivery is a run  *)
(* of the data handler; it is run on this component's receive state, which *)
(* sendFile does not use, after sendFile has returned.  The message the    *)
(* receiver assembles carries the transferId of its chunks; the sender's   *)
(* own file message does not.                                              *)
(***************************************************************************)
TransportDeliver ==
    /\ sendProcs = <<>>
    /\ Len(arrivals) < Len(hist.emitted)
    /\ LET e == hist.emitted[Len(arrivals) + 1]
       IN  /\ OnData(e.conn, e.msg)
           /\ arrivals' = Append(arrivals, e.msg)
    /\ UNCHANGED <<payload, wire, logs>>

NextTransfer ==
    \/ AcceptFirst("A")
    \/ \E h \in ConnIds : ConnOpen(h)
    \/ \E file \in SendFiles : SendOneFile(file)
    \/ \E k \in 1..MaxSends : SendFileResume(k)
    \/ TransportDeliver

\* sendFile's continuations run, and the transport delivers what it was given
SpecTransfer ==
    /\ Init
    /\ [][NextTransfer]_vars
    /\ WF_vars(\E k \in 1..MaxSends : SendFileResume(k))
    /\ WF_vars(TransportDeliver)

\* the completed file messages the receiver assembled for transfer t
ReceivedFiles(t) ==
    {i \in 1..Len(messages) : /\ messages[i].type \in {"IMAGE", "VIDEO_FILE"}
                              /\ messages[i].transferId = t}

\* C36: the receiver never assembles more than one completed message for the
\* transfer, and once the sender's stream shows the file as sent the receiver
\* eventually holds exactly one completed message for it.
C36_SentFileArrives ==
    /\ [](Cardinality(ReceivedFiles("s1")) <= 1)
    /\ (OwnFileMessages # {}) ~> (Cardinality(ReceivedFiles("s1")) = 1)

(***************************************************************************)
(* Responses and rejection, checked under SpecCall                         *)
(***************************************************************************)
AcceptEnvelope == Envelope("CALL_RESPONSE", "A", "ACCEPT")

\* a CALL_REQUEST was sent and is not answered: the overlay shows the
\* outgoing call
Requesting == isInCall /\ ~isIncomingCall /\ hist.callPhase = "requested"

\* C37: a CALL_RESPONSE ACCEPT that arrives while no CALL_REQUEST of this
\* endpoint is pending starts no media acquisition and places no media call.
C37_AcceptOnlyWhenRequesting ==
    [][\A h \in ConnIds :
          (ConnData(h, AcceptEnvelope) /\ ~Requesting) =>
              /\ pendingMedia' = pendingMedia
              /\ streams' = streams
              /\ NoNewCall]_vars

\* C38: the reject action on an incoming call, taken while the session is
\* open, hands the transport a CALL_RESPONSE other than ACCEPT for the
\* caller.
C38_RejectIsSent ==
    [][(HangUp /\ isIncomingCall /\ remoteStream = 0 /\ LinkOpen) =>
          \E i \in 1..Len(sent') :
              /\ sent'[i].msg.type = "CALL_RESPONSE"
              /\ sent'[i].msg.content # "ACCEPT"]_vars

(***************************************************************************)
(* Specification of calls over a session that may close: SpecCall with the *)
(* close signal of the session.                                            *)
(***************************************************************************)
NextCallClose ==
    \/ NextCalls
    \/ \E h \in ConnIds : ConnClose(h)

SpecCallClose == Init /\ [][NextCallClose]_vars

\* C39: while a call is requested, incoming or active the session state is
\* CONNECTED, and the close signal of the session ends the call and stops
\* the local media.
C39_CallGatedOnSession ==
    [][/\ isInCall' => status' = "CONNECTED"
       /\ (\E h \in ConnIds : ConnClose(h)) =>
              /\ ~isInCall'
              /\ localStream' = 0
              /\ \A x \in StreamIds : streams'[x].acquired => streams'[x].stops >= 1]_vars

=============================================================================
